---------------------------- MODULE Spec2Model ----------------------------
(***************************************************************************)
(* A model of rigid-go (src/rigid.go): ULIDs signed with a truncated       *)
(* HMAC-SHA256 and an optional metadata suffix.                            *)
(*                                                                         *)
(* Representation.  A Go string or []byte is a sequence of byte values     *)
(* (0..255); text is written as its ASCII codes, so that the hyphen is 45, *)
(* '0'..'9' are 48..57, 'A'..'Z' are 65..90 and 'a'..'z' are 97..122.  A    *)
(* ulid.ULID is its 16 bytes.  Errors are the strings of the source's      *)
(* errors.New calls and NoErr stands for a nil error.                      *)
(***************************************************************************)
EXTENDS Integers, Sequences, FiniteSets, TLC

(***************************************************************************)
(* Bounds of the model.                                                    *)
(***************************************************************************)
\* goroutines that call Generate concurrently
NumProcs == 2
\* Generate calls started in one behaviour
MaxGen == 3
\* milliseconds the wall clock may advance
MaxClock == 1
\* largest increment the monotonic source draws (the library's is 2^32-1)
MaxInc == 2
\* Generate calls in the specifications that explore the API sequentially
MaxApiGen == 1

\* Generate calls of the caller in SpecRepeat
MaxRepeatGen == 2

(***************************************************************************)
(* src/rigid.go: errors and constants.                                     *)
(***************************************************************************)
NoErr == "nil"
ErrInvalidFormat == "invalid rigid format"
ErrInvalidULID == "invalid ULID"
ErrIntegrityFailure == "integrity verification failed"
ErrEmptySecretKey == "secret key cannot be empty"
ErrInvalidSigLength == "signature length must be positive"
\* github.com/oklog/ulid/v2: the error of an exhausted monotonic source
ErrMonotonicOverflow == "ulid: monotonic entropy overflow"

DefaultSignatureLength == 8
MinSignatureLength == 4
MaxSignatureLength == 32

(***************************************************************************)
(* Bytes and text.                                                         *)
(***************************************************************************)
\* 2^n for n in 0..30
Pow2Table ==
    <<1, 2, 4, 8, 16, 32, 64, 128, 256, 512, 1024, 2048, 4096, 8192, 16384, 32768,
      65536, 131072, 262144, 524288, 1048576, 2097152, 4194304, 8388608, 16777216,
      33554432, 67108864, 134217728, 268435456, 536870912, 1073741824>>

Pow2(n) == Pow2Table[n + 1]

\* bit k (0 = most significant bit of the first byte) of a byte sequence;
\* 0 outside the sequence
BitAt(bytes, k) ==
    IF k < 0 \/ k >= 8 * Len(bytes) THEN 0
    ELSE (bytes[(k \div 8) + 1] \div Pow2(7 - (k % 8))) % 2

\* the 5-bit group whose first bit is bit k
Group5(bytes, k) ==
    16 * BitAt(bytes, k) + 8 * BitAt(bytes, k + 1) + 4 * BitAt(bytes, k + 2)
    + 2 * BitAt(bytes, k + 3) + BitAt(bytes, k + 4)

RECURSIVE BitOr(_, _)
BitOr(a, b) ==
    IF a = 0 THEN b
    ELSE IF b = 0 THEN a
    ELSE 2 * BitOr(a \div 2, b \div 2) + (IF (a % 2 = 1) \/ (b % 2 = 1) THEN 1 ELSE 0)

Hyphen == <<45>>

\* strings.Split(s, "-"): the segments between hyphens, one more than there
\* are hyphens.  Segment k runs from after hyphen k-1 to before hyphen k.
Split(s) ==
    LET hy == {i \in 1..Len(s) : s[i] = 45}
        n == Cardinality(hy)
        at(k) == IF k = 0 THEN 0
                 ELSE IF k > n THEN Len(s) + 1
                 ELSE CHOOSE i \in hy : Cardinality({j \in hy : j < i}) = k - 1
    IN  [k \in 1..(n + 1) |-> SubSeq(s, at(k - 1) + 1, at(k) - 1)]

\* strings.Join(parts[from-1:], "-") (from is the 1-based first part)
RECURSIVE JoinFrom(_, _)
JoinFrom(parts, from) ==
    IF from > Len(parts) THEN <<>>
    ELSE IF from = Len(parts) THEN parts[from]
    ELSE parts[from] \o Hyphen \o JoinFrom(parts, from + 1)

\* strings.ToUpper on ASCII text
ToUpper(s) == [i \in 1..Len(s) |-> IF s[i] >= 97 /\ s[i] <= 122 THEN s[i] - 32 ELSE s[i]]

(***************************************************************************)
(* encoding/base32: StdEncoding.WithPadding(NoPadding).EncodeToString.     *)
(* The bits of the input, most significant first, in groups of five, the   *)
(* last group filled with zero bits; each group indexes the alphabet       *)
(* "ABCDEFGHIJKLMNOPQRSTUVWXYZ234567".                                      *)
(***************************************************************************)
Base32Alphabet ==
    <<65, 66, 67, 68, 69, 70, 71, 72, 73, 74, 75, 76, 77, 78, 79, 80,
      81, 82, 83, 84, 85, 86, 87, 88, 89, 90, 50, 51, 52, 53, 54, 55>>

Base32Encode(bytes) ==
    [j \in 1..((8 * Len(bytes) + 4) \div 5) |->
        Base32Alphabet[Group5(bytes, 5 * (j - 1)) + 1]]

(***************************************************************************)
(* crypto/hmac with crypto/sha256: h.Sum(nil) after the writes of msg.     *)
(* The digest is 32 bytes and a function of the key and of the bytes       *)
(* written.  SHA-256 itself is not modelled: the digest is a polynomial    *)
(* fingerprint of the key (bytes 1-2) and of key and message (bytes 3-4),  *)
(* expanded to 32 bytes.  Two messages of one length that differ in one    *)
(* byte never have the same fingerprint, and the keys of the model have    *)
(* different ones.                                                         *)
(***************************************************************************)
\* 257^i modulo the prime 65521, for i in 1..128
RECURSIVE Pow257(_)
Pow257(i) == IF i = 0 THEN 1 ELSE (Pow257(i - 1) * 257) % 65521

Weight == [i \in 1..128 |-> Pow257(i)]

\* the sum over i in lo..hi of (s[i] + 1) * 257^i, modulo 65521
RECURSIVE WeightedSum(_, _, _)
WeightedSum(s, lo, hi) ==
    IF lo > hi THEN 0
    ELSE IF lo = hi THEN ((s[lo] + 1) * Weight[lo]) % 65521
    ELSE LET mid == (lo + hi) \div 2
         IN  (WeightedSum(s, lo, mid) + WeightedSum(s, mid + 1, hi)) % 65521

Fingerprint(s) == (WeightedSum(s, 1, Len(s)) + Len(s)) % 65521

hmacSum(key, msg) ==
    LET kh == Fingerprint(key)
        mh == (Fingerprint(msg) + 31 * kh) % 65521
    IN  [i \in 1..32 |->
            CASE i = 1 -> kh \div 256
              [] i = 2 -> kh % 256
              [] i = 3 -> mh \div 256
              [] i = 4 -> mh % 256
              [] OTHER -> (kh * i + mh * (i + 1) + i) % 256]

(***************************************************************************)
(* github.com/oklog/ulid/v2, as src/rigid.go uses it.                      *)
(***************************************************************************)
\* ulid.Encoding: Crockford's base32, "0123456789ABCDEFGHJKMNPQRSTVWXYZ"
UlidEncoding ==
    <<48, 49, 50, 51, 52, 53, 54, 55, 56, 57, 65, 66, 67, 68, 69, 70,
      71, 72, 74, 75, 77, 78, 80, 81, 82, 83, 84, 86, 87, 88, 89, 90>>

\* the library's dec table: the value of a character, 255 (0xFF) for a byte
\* that is no character of the encoding; lower case decodes like upper case
decTable ==
    [c \in 0..255 |->
        LET u == IF c >= 97 /\ c <= 122 THEN c - 32 ELSE c
            at == {k \in 1..32 : UlidEncoding[k] = u}
        IN  IF at = {} THEN 255 ELSE (CHOOSE k \in at : TRUE) - 1]

dec(c) == decTable[c]

\* ULID.String(): 26 characters; the first holds the top 3 bits of the 128,
\* each of the others the next 5
UlidString(id) == [j \in 1..26 |-> UlidEncoding[Group5(id, 5 * (j - 1) - 2) + 1]]

\* the part of character j (0-based) of v that ulid.Parse puts into byte k
\* (0-based) of the id: dec[v[j]] shifted so that its lowest bit lands where
\* the 5-bit group's lowest bit belongs, cut to a byte
ParseShift(v, j, k) ==
    LET s == (8 * k + 7) - (5 * j + 2)
        d == dec(v[j + 1])
    IN  IF s >= 0 THEN (d * Pow2(s)) % 256 ELSE d \div Pow2(0 - s)

\* byte k (0-based) of the parsed id: the parts of the characters whose
\* 5 bits overlap the byte's 8, or-ed together (characters j with
\* 5j+2 >= 8k and 5j-2 <= 8k+7: two or three of them)
ParseByte(v, k) ==
    LET lo == (8 * k + 2) \div 5
        hi == (8 * k + 9) \div 5
    IN  IF hi = lo + 1
        THEN BitOr(ParseShift(v, lo, k), ParseShift(v, hi, k))
        ELSE BitOr(ParseShift(v, lo, k),
                   BitOr(ParseShift(v, lo + 1, k), ParseShift(v, hi, k)))

\* a variant of the parser that takes texts of fewer than 26 characters,
\* read as if filled up with '0' on the left
UlidParseShort(v) ==
    LET w == [k \in 1..26 |-> IF k <= 26 - Len(v) THEN 48 ELSE v[k - (26 - Len(v))]]
    IN  IF Len(v) > 26 \/ Len(v) = 0
        THEN [err |-> "ulid: bad data size when unmarshaling", id |-> <<>>]
        ELSE IF w[1] > 55 THEN [err |-> "ulid: overflow when unmarshaling", id |-> <<>>]
        ELSE [err |-> NoErr, id |-> [k \in 1..16 |-> ParseByte(w, k - 1)]]

\* ulid.Parse(v): not the strict form.  ErrDataSize unless len(v) = 26;
\* ErrOverflow if v[0] > '7'; no check of the other characters.
UlidParse(v) ==
    IF Len(v) # 26 THEN [err |-> "ulid: bad data size when unmarshaling", id |-> <<>>]
    ELSE IF v[1] > 55 THEN [err |-> "ulid: overflow when unmarshaling", id |-> <<>>]
    ELSE [err |-> NoErr, id |-> [k \in 1..16 |-> ParseByte(v, k - 1)]]

\* big-endian bytes of a number below 2^31, n of them
NatBytes(x, n) ==
    [k \in 1..n |-> IF n - k >= 4 THEN 0 ELSE (x \div Pow2(8 * (n - k))) % 256]

\* quotient and remainder of a big-endian byte sequence by a small divisor
RECURSIVE DivBytes(_, _, _, _)
DivBytes(bytes, d, i, rem) ==
    IF i > Len(bytes) THEN [quo |-> <<>>, rem |-> rem]
    ELSE LET cur == rem * 256 + bytes[i]
             rest == DivBytes(bytes, d, i + 1, cur % d)
         IN  [quo |-> <<cur \div d>> \o rest.quo, rem |-> rest.rem]

\* time.Now(): a wall-clock reading as Unix seconds and nanoseconds.  Tick
\* c of the model's clock is millisecond 999 + c of second 1700, so that the
\* first tick crosses a second; the reading lies 999999 ns into an even
\* millisecond and at the start of an odd one.
TimeNow(c) ==
    [sec |-> 1700 + ((999 + c) \div 1000),
     nsec |-> ((999 + c) % 1000) * 1000000 + (IF c % 2 = 0 THEN 999999 ELSE 0)]

\* ulid.Timestamp(t): t.Unix()*1000 + t.Nanosecond()/1e6
Timestamp(t) == t.sec * 1000 + (t.nsec \div 1000000)

\* ULID.Time(): the 48-bit millisecond count of an id, as its 6 bytes
UlidTime(id) == SubSeq(id, 1, 6)

\* ulid.Time(ms): time.Unix(ms/1e3, (ms%1e3)*1e6); the seconds stay bytes
\* because a parsed id may hold any 48-bit count
UlidToTime(ms) ==
    LET q == DivBytes(ms, 1000, 1, 0)
    IN  [sec |-> q.quo, nsec |-> q.rem * 1000000]

\* uint80.Add(n): the 80-bit entropy plus n, wrapping; overflow reports the
\* wrap.  The receiver is changed in either case.
RECURSIVE AddBytes(_, _, _)
AddBytes(bytes, n, i) ==
    IF i = 0 THEN [val |-> bytes, overflow |-> n > 0]
    ELSE LET sum == bytes[i] + n
         IN  AddBytes([bytes EXCEPT ![i] = sum % 256], sum \div 256, i - 1)

Uint80Add(entropy, n) == AddBytes(entropy, n, 10)

Zero80 == <<0, 0, 0, 0, 0, 0, 0, 0, 0, 0>>

\* ulid.Monotonic(rand.New(...), 0): no millisecond and no entropy yet
Monotonic == [ms |-> 0, entropy |-> Zero80]

\* MonotonicEntropy.MonotonicRead(ms, id[6:]).  rnd is what the random reader
\* returns if it is read, inc the increment m.random() draws if it is drawn.
\* In the same millisecond as the last call, with non-zero entropy, the
\* entropy is incremented; otherwise it is read afresh.
MonotonicRead(m, ms, rnd, inc) ==
    IF m.entropy # Zero80 /\ m.ms = ms
    THEN LET a == Uint80Add(m.entropy, inc)
         IN  [m |-> [ms |-> m.ms, entropy |-> a.val],
              entropy |-> a.val,
              err |-> IF a.overflow THEN ErrMonotonicOverflow ELSE NoErr]
    ELSE [m |-> [ms |-> ms, entropy |-> rnd], entropy |-> rnd, err |-> NoErr]

\* ulid.New(ms, entropy): SetTime(ms), then the monotonic read into id[6:]
UlidNew(m, ms, rnd, inc) ==
    LET r == MonotonicRead(m, ms, rnd, inc)
    IN  [m |-> r.m, id |-> NatBytes(ms, 6) \o r.entropy, err |-> r.err]

(***************************************************************************)
(* src/rigid.go: the Rigid type and its pure methods.  An instance is      *)
(* [secretKey, signatureLength, entropy]; its mutex is the variable mu.    *)
(***************************************************************************)
Nil == [nil |-> TRUE]

\* NewRigid(secretKey, signatureLength...): lens is the variadic argument
NewRigidSigLen(lens) == IF Len(lens) > 0 THEN lens[1] ELSE DefaultSignatureLength

\* a variant of the length check with the bounds themselves refused
NewRigidLenBadStrict(lens) ==
    Len(lens) > 0 /\ (lens[1] <= MinSignatureLength \/ lens[1] >= MaxSignatureLength)

NewRigidLenBad(lens) ==
    Len(lens) > 0 /\ (lens[1] < MinSignatureLength \/ lens[1] > MaxSignatureLength)

NewRigid(secretKey, lens) ==
    IF Len(secretKey) = 0 THEN [r |-> Nil, err |-> ErrEmptySecretKey]
    ELSE IF NewRigidLenBad(lens) THEN [r |-> Nil, err |-> ErrInvalidSigLength]
    ELSE [r |-> [secretKey |-> secretKey,
                 signatureLength |-> NewRigidSigLen(lens),
                 entropy |-> Monotonic],
          err |-> NoErr]

\* the bytes generateSignature writes to the HMAC
SignedMessage(ulidStr, metadata) ==
    IF metadata # <<>> THEN ulidStr \o metadata ELSE ulidStr

\* a variant of the signature that is always cut to the default length
generateSignatureDefaultLen(r, ulidStr, metadata) ==
    LET sum == hmacSum(r.secretKey, SignedMessage(ulidStr, metadata))
        truncated == SubSeq(sum, 1, DefaultSignatureLength)
    IN  ToUpper(Base32Encode(truncated))

\* a variant of the signature that is not keyed by the instance's secret
generateSignatureUnkeyed(r, ulidStr, metadata) ==
    LET sum == hmacSum(<<0>>, SignedMessage(ulidStr, metadata))
        truncated == SubSeq(sum, 1, r.signatureLength)
    IN  ToUpper(Base32Encode(truncated))

generateSignature(r, ulidStr, metadata) ==
    LET sum == hmacSum(r.secretKey, SignedMessage(ulidStr, metadata))
        truncated == SubSeq(sum, 1, r.signatureLength)
    IN  ToUpper(Base32Encode(truncated))

\* a variant of the bound metadata that takes the last argument
GenerateMetadataLast(metadata) == IF Len(metadata) > 0 THEN metadata[Len(metadata)] ELSE <<>>

\* Generate: the metadata the variadic argument binds
GenerateMetadata(metadata) == IF Len(metadata) > 0 THEN metadata[1] ELSE <<>>

\* a variant of the text that appends the metadata even when it is empty
GenerateResultAlways(ulidStr, signature, metadataStr) ==
    ulidStr \o Hyphen \o signature \o Hyphen \o metadataStr

\* Generate: the text built from the id, the signature and the metadata
GenerateResult(ulidStr, signature, metadataStr) ==
    IF metadataStr # <<>>
    THEN ulidStr \o Hyphen \o signature \o Hyphen \o metadataStr
    ELSE ulidStr \o Hyphen \o signature

VerifyResultZero == [Valid |-> FALSE, ULID |-> <<>>, Metadata |-> <<>>]

\* a variant of the metadata that keeps the third segment only
VerifyMetadataThirdOnly(parts) == IF Len(parts) > 2 THEN parts[3] ELSE <<>>

\* Verify: the metadata of a split text
VerifyMetadata(parts) == IF Len(parts) > 2 THEN JoinFrom(parts, 3) ELSE <<>>

\* a variant of the segment count that asks for three segments
VerifyTooFewThree(parts) == Len(parts) < 3

\* Verify: too few segments
VerifyTooFew(parts) == Len(parts) < 2

\* a variant of the comparison that ignores the case of letters
ConstantTimeEqualFold(x, y) == Len(x) = Len(y) /\ ToUpper(x) = ToUpper(y)

\* subtle.ConstantTimeCompare(x, y) = 1
ConstantTimeEqual(x, y) == Len(x) = Len(y) /\ \A i \in 1..Len(x) : x[i] = y[i]

\* a variant of Verify that fills in the result before it checks the
\* signature
VerifyFillsEarly(r, secureULID) ==
    LET parts == Split(secureULID)
    IN  IF VerifyTooFew(parts) THEN [result |-> VerifyResultZero, err |-> ErrInvalidFormat]
        ELSE LET ulidStr == parts[1]
                 signature == parts[2]
                 metadata == VerifyMetadata(parts)
                 filled == [Valid |-> FALSE, ULID |-> ulidStr, Metadata |-> metadata]
             IN  IF UlidParse(ulidStr).err # NoErr
                 THEN [result |-> VerifyResultZero, err |-> ErrInvalidULID]
                 ELSE LET expectedSignature == generateSignature(r, ulidStr, metadata)
                      IN  IF Len(signature) # Len(expectedSignature)
                          THEN [result |-> filled, err |-> ErrIntegrityFailure]
                          ELSE IF ~ConstantTimeEqual(signature, expectedSignature)
                          THEN [result |-> filled, err |-> ErrIntegrityFailure]
                          ELSE [result |-> [Valid |-> TRUE, ULID |-> ulidStr,
                                            Metadata |-> metadata],
                                err |-> NoErr]

\* a variant of Verify that checks the signature before it parses the id
VerifySignatureFirst(r, secureULID) ==
    LET parts == Split(secureULID)
    IN  IF VerifyTooFew(parts) THEN [result |-> VerifyResultZero, err |-> ErrInvalidFormat]
        ELSE LET ulidStr == parts[1]
                 signature == parts[2]
                 metadata == VerifyMetadata(parts)
                 expectedSignature == generateSignature(r, ulidStr, metadata)
             IN  IF Len(signature) # Len(expectedSignature)
                 THEN [result |-> VerifyResultZero, err |-> ErrIntegrityFailure]
                 ELSE IF ~ConstantTimeEqual(signature, expectedSignature)
                 THEN [result |-> VerifyResultZero, err |-> ErrIntegrityFailure]
                 ELSE IF UlidParse(ulidStr).err # NoErr
                 THEN [result |-> VerifyResultZero, err |-> ErrInvalidULID]
                 ELSE [result |-> [Valid |-> TRUE, ULID |-> ulidStr,
                                   Metadata |-> metadata],
                       err |-> NoErr]

\* a variant of Verify that accepts only ids of the millisecond the
\* instance's monotonic source is in
VerifyStateful(r, secureULID) ==
    LET parts == Split(secureULID)
    IN  IF VerifyTooFew(parts) THEN [result |-> VerifyResultZero, err |-> ErrInvalidFormat]
        ELSE LET ulidStr == parts[1]
                 signature == parts[2]
                 metadata == VerifyMetadata(parts)
             IN  IF UlidParse(ulidStr).err # NoErr
                 THEN [result |-> VerifyResultZero, err |-> ErrInvalidULID]
                 ELSE LET expectedSignature == generateSignature(r, ulidStr, metadata)
                      IN  IF Len(signature) # Len(expectedSignature)
                          THEN [result |-> VerifyResultZero, err |-> ErrIntegrityFailure]
                          ELSE IF \/ ~ConstantTimeEqual(signature, expectedSignature)
                                  \/ UlidTime(UlidParse(ulidStr).id) # NatBytes(r.entropy.ms, 6)
                          THEN [result |-> VerifyResultZero, err |-> ErrIntegrityFailure]
                          ELSE [result |-> [Valid |-> TRUE, ULID |-> ulidStr,
                                            Metadata |-> metadata],
                                err |-> NoErr]

Verify(r, secureULID) ==
    LET parts == Split(secureULID)
    IN  IF VerifyTooFew(parts) THEN [result |-> VerifyResultZero, err |-> ErrInvalidFormat]
        ELSE LET ulidStr == parts[1]
                 signature == parts[2]
                 metadata == VerifyMetadata(parts)
             IN  IF UlidParse(ulidStr).err # NoErr
                 THEN [result |-> VerifyResultZero, err |-> ErrInvalidULID]
                 ELSE LET expectedSignature == generateSignature(r, ulidStr, metadata)
                      IN  IF Len(signature) # Len(expectedSignature)
                          THEN [result |-> VerifyResultZero, err |-> ErrIntegrityFailure]
                          ELSE IF ~ConstantTimeEqual(signature, expectedSignature)
                          THEN [result |-> VerifyResultZero, err |-> ErrIntegrityFailure]
                          ELSE [result |-> [Valid |-> TRUE, ULID |-> ulidStr,
                                            Metadata |-> metadata],
                                err |-> NoErr]

ZeroULID == [k \in 1..16 |-> 0]

\* a variant of ExtractULID that parses the second segment
ExtractULIDSecond(r, secureULID) ==
    LET parts == Split(secureULID)
    IN  IF Len(parts) < 2 THEN [result |-> ZeroULID, err |-> ErrInvalidFormat]
        ELSE LET p == UlidParse(parts[2])
             IN  IF p.err # NoErr THEN [result |-> ZeroULID, err |-> ErrInvalidULID]
                 ELSE [result |-> p.id, err |-> NoErr]

ExtractULID(r, secureULID) ==
    LET parts == Split(secureULID)
    IN  IF Len(parts) < 2 THEN [result |-> ZeroULID, err |-> ErrInvalidFormat]
        ELSE LET p == UlidParse(parts[1])
             IN  IF p.err # NoErr THEN [result |-> ZeroULID, err |-> ErrInvalidULID]
                 ELSE [result |-> p.id, err |-> NoErr]

\* time.Time{}: the zero time
ZeroTime == [sec |-> <<>>, nsec |-> 0]

\* a variant of ExtractTimestamp that reports every failure as a bad format
ExtractTimestampFormatOnly(r, secureULID) ==
    LET e == ExtractULID(r, secureULID)
    IN  IF e.err # NoErr THEN [result |-> ZeroTime, err |-> ErrInvalidFormat]
        ELSE [result |-> UlidToTime(UlidTime(e.result)), err |-> NoErr]

ExtractTimestamp(r, secureULID) ==
    LET e == ExtractULID(r, secureULID)
    IN  IF e.err # NoErr THEN [result |-> ZeroTime, err |-> e.err]
        ELSE [result |-> UlidToTime(UlidTime(e.result)), err |-> NoErr]


(***************************************************************************)
(* Inputs of the model.                                                    *)
(***************************************************************************)
\* "k1" and "key2"
Key1 == <<107, 49>>
Key2 == <<107, 101, 121, 50>>

\* what the random reader may return for the 10 bytes of entropy: all zero,
\* something in between, all ones
RndMid == <<0, 0, 0, 0, 0, 0, 0, 0, 1, 254>>
RndMax == <<255, 255, 255, 255, 255, 255, 255, 255, 255, 255>>
RandSet == {Zero80, RndMid, RndMax}

\* metadata arguments of Generate: none, "", "-a--b-", ("m", "x")
MetaNone == <<>>
MetaEmpty == << <<>> >>
MetaHyphens == << <<45, 97, 45, 45, 98, 45>> >>
MetaTwo == << <<109>>, <<120>> >>
MetaArgs == {MetaNone, MetaEmpty, MetaHyphens, MetaTwo}

\* "", "no-hyphens-here", "not-a-ulid-SIGNATURE", "12345-SIGNATURE",
\* "ZZZZZZZZZZZZZZZZZZZZZZZZZZ-SIG", "0000000000000000000000000U-SIG",
\* "invalid"
TextEmpty == <<>>
TextNoHyphensHere == <<110, 111, 45, 104, 121, 112, 104, 101, 110, 115, 45, 104, 101, 114, 101>>
TextNotAUlid == <<110, 111, 116, 45, 97, 45, 117, 108, 105, 100, 45, 83, 73, 71, 78, 65, 84, 85, 82, 69>>
Text12345 == <<49, 50, 51, 52, 53, 45, 83, 73, 71, 78, 65, 84, 85, 82, 69>>
TextAllZ == <<90, 90, 90, 90, 90, 90, 90, 90, 90, 90, 90, 90, 90, 90, 90, 90, 90, 90, 90, 90, 90, 90, 90, 90, 90, 90, 45, 83, 73, 71>>
TextBadChar == <<48, 48, 48, 48, 48, 48, 48, 48, 48, 48, 48, 48, 48, 48, 48, 48, 48, 48, 48, 48, 48, 48, 48, 48, 48, 85, 45, 83, 73, 71>>
TextInvalid == <<105, 110, 118, 97, 108, 105, 100>>
Literals ==
    {TextEmpty, TextNoHyphensHere, TextNotAUlid, Text12345, TextAllZ, TextBadChar,
     TextInvalid}

\* one-character edits of a text: a replacement, an insertion, a deletion.
\* The characters put in: '-', 'A', 'U', '2' and, for a replacement, the
\* lower-case form of the letter replaced.
TamperChars == {45, 65, 85, 50}

ToLowerChar(c) == IF c >= 65 /\ c <= 90 THEN c + 32 ELSE c

ReplaceAt(t, i, c) == [t EXCEPT ![i] = c]
InsertAt(t, i, c) == SubSeq(t, 1, i - 1) \o <<c>> \o SubSeq(t, i, Len(t))
DeleteAt(t, i) == SubSeq(t, 1, i - 1) \o SubSeq(t, i + 1, Len(t))

Edits(t) ==
    {ReplaceAt(t, i, c) : i \in 1..Len(t), c \in TamperChars} \cup
    {ReplaceAt(t, i, ToLowerChar(t[i])) : i \in 1..Len(t)} \cup
    {InsertAt(t, i, c) : i \in 1..(Len(t) + 1), c \in TamperChars} \cup
    {DeleteAt(t, i) : i \in 1..Len(t)}

(***************************************************************************)
(* The state.                                                              *)
(***************************************************************************)
VARIABLES
    inst,     \* the Rigid instances; Nil before NewRigid has built one
    mu,       \* each instance's mutex: the goroutine holding it, or 0
    clock,    \* the wall clock, in milliseconds since the model's start
    pc,       \* where each goroutine is in its Generate call
    loc,      \* the locals of each goroutine's Generate call
    started,  \* Generate calls started so far
    hist,     \* the Generate calls that returned, in the order of return
    ret,      \* the last call of NewRigid, Verify, ExtractULID, ExtractTimestamp
    keybuf    \* the callers' buffers: the bytes of the slice NewRigid was given

vars == <<inst, mu, clock, pc, loc, started, hist, ret, keybuf>>

InstIds == {1, 2}
Procs == 1..NumProcs

NoLoc == [inst |-> 0]
NoRet == [op |-> "none"]

\* the Generate calls that succeeded
Issued == {k \in 1..Len(hist) : hist[k].err = NoErr}
IssuedTexts == {hist[k].text : k \in Issued}

\* the callers still hold the keys they built the instances from
InitKeys == keybuf = [i \in InstIds |-> IF inst[i] = Nil THEN <<>> ELSE inst[i].secretKey]

InitCommon ==
    /\ mu = [i \in InstIds |-> 0]
    /\ clock = 0
    /\ pc = [p \in Procs |-> "idle"]
    /\ loc = [p \in Procs |-> NoLoc]
    /\ started = 0
    /\ hist = <<>>
    /\ ret = NoRet

(***************************************************************************)
(* The caller is done with the result of its last call.  The model keeps   *)
(* one result at a time: the other actions wait for this one.              *)
(***************************************************************************)
Forget ==
    /\ ret # NoRet
    /\ ret' = NoRet
    /\ UNCHANGED <<inst, mu, clock, pc, loc, started, hist, keybuf>>

(***************************************************************************)
(* The wall clock advances.                                                *)
(***************************************************************************)
Tick ==
    /\ ret = NoRet
    /\ clock < MaxClock
    /\ clock' = clock + 1
    /\ UNCHANGED <<inst, mu, pc, loc, started, hist, ret, keybuf>>

(***************************************************************************)
(* NewRigid(secretKey, signatureLength...) builds instance i.              *)
(***************************************************************************)
NewRigidCall(i, secretKey, lens) ==
    /\ ret = NoRet
    /\ inst[i] = Nil
    /\ LET n == NewRigid(secretKey, lens)
       IN  /\ inst' = [inst EXCEPT ![i] = n.r]
           /\ ret' = [op |-> "NewRigid", inst |-> i, key |-> secretKey, lens |-> lens,
                      r |-> n.r, err |-> n.err]
           /\ keybuf' = [keybuf EXCEPT ![i] = IF n.err = NoErr THEN secretKey ELSE @]
    /\ UNCHANGED <<mu, clock, pc, loc, started, hist>>

(***************************************************************************)
(* The caller of NewRigid fills the buffer it passed as the key of         *)
(* instance i with the byte c.  NewRigid made r.secretKey a slice of its   *)
(* own and copied the key into it, so the instance does not change.        *)
(***************************************************************************)
\* a variant in which r.secretKey is the caller's slice
OverwriteKeyAliased(i, c) ==
    /\ ret = NoRet
    /\ inst[i] # Nil
    /\ keybuf[i] # [k \in 1..Len(keybuf[i]) |-> c]
    /\ keybuf' = [keybuf EXCEPT ![i] = [k \in 1..Len(keybuf[i]) |-> c]]
    /\ inst' = [inst EXCEPT ![i].secretKey = keybuf'[i]]
    /\ UNCHANGED <<mu, clock, pc, loc, started, hist, ret>>

OverwriteKey(i, c) ==
    /\ ret = NoRet
    /\ inst[i] # Nil
    /\ keybuf[i] # [k \in 1..Len(keybuf[i]) |-> c]
    /\ keybuf' = [keybuf EXCEPT ![i] = [k \in 1..Len(keybuf[i]) |-> c]]
    /\ UNCHANGED <<inst, mu, clock, pc, loc, started, hist, ret>>

(***************************************************************************)
(* Generate(metadata...) on instance i by goroutine p, src/rigid.go.       *)
(***************************************************************************)
\* the call is made; r.mu.Lock() is next
GenCall(p, i, metadata, limit) ==
    /\ ret = NoRet
    /\ pc[p] = "idle"
    /\ inst[i] # Nil
    /\ started < limit
    /\ started' = started + 1
    /\ pc' = [pc EXCEPT ![p] = "lock"]
    /\ loc' = [loc EXCEPT ![p] = [inst |-> i, metadata |-> metadata]]
    /\ UNCHANGED <<inst, mu, clock, hist, ret, keybuf>>

\* r.mu.Lock(): blocks while another goroutine holds the mutex
GenLock(p) ==
    /\ ret = NoRet
    /\ pc[p] = "lock"
    /\ mu[loc[p].inst] = 0
    /\ mu' = [mu EXCEPT ![loc[p].inst] = p]
    /\ pc' = [pc EXCEPT ![p] = "now"]
    /\ UNCHANGED <<inst, clock, loc, started, hist, ret, keybuf>>

\* now := time.Now()
GenNow(p) ==
    /\ ret = NoRet
    /\ pc[p] = "now"
    /\ loc' = [loc EXCEPT ![p] =
                 [inst |-> loc[p].inst, metadata |-> loc[p].metadata,
                  now |-> TimeNow(clock)]]
    /\ pc' = [pc EXCEPT ![p] = "new"]
    /\ UNCHANGED <<inst, mu, clock, started, hist, ret, keybuf>>

\* the record of a Generate call that returned
Returned(p, id, text, err) ==
    [inst |-> loc[p].inst, proc |-> p, metadata |-> loc[p].metadata,
     now |-> loc[p].now, id |-> id, text |-> text, err |-> err]

\* a variant of the step that returns the error of ulid.New with the mutex
\* still locked
GenNewKeepsLock(p, rnd, inc) ==
    /\ ret = NoRet
    /\ pc[p] = "new"
    /\ LET i == loc[p].inst
           n == UlidNew(inst[i].entropy, Timestamp(loc[p].now), rnd, inc)
       IN  /\ inst' = [inst EXCEPT ![i].entropy = n.m]
           /\ IF n.err # NoErr
              THEN /\ hist' = Append(hist, Returned(p, n.id, <<>>, n.err))
                   /\ pc' = [pc EXCEPT ![p] = "idle"]
                   /\ loc' = [loc EXCEPT ![p] = NoLoc]
                   /\ UNCHANGED mu
              ELSE /\ pc' = [pc EXCEPT ![p] = "sign"]
                   /\ loc' = [loc EXCEPT ![p] =
                                [inst |-> i, metadata |-> loc[p].metadata,
                                 now |-> loc[p].now, ulidObj |-> n.id]]
                   /\ UNCHANGED <<mu, hist>>
    /\ UNCHANGED <<clock, started, ret, keybuf>>

\* a variant of the step that ignores the error of ulid.New and goes on to
\* sign the id it was left with
GenNewIgnoresErr(p, rnd, inc) ==
    /\ ret = NoRet
    /\ pc[p] = "new"
    /\ LET i == loc[p].inst
           n == UlidNew(inst[i].entropy, Timestamp(loc[p].now), rnd, inc)
       IN  /\ inst' = [inst EXCEPT ![i].entropy = n.m]
           /\ pc' = [pc EXCEPT ![p] = "sign"]
           /\ loc' = [loc EXCEPT ![p] =
                        [inst |-> i, metadata |-> loc[p].metadata,
                         now |-> loc[p].now, ulidObj |-> n.id]]
           /\ UNCHANGED <<mu, hist>>
    /\ UNCHANGED <<clock, started, ret, keybuf>>

\* ulidObj, err := ulid.New(ulid.Timestamp(now), r.entropy); on an error the
\* call returns "", err and the deferred Unlock runs
GenNew(p, rnd, inc) ==
    /\ ret = NoRet
    /\ pc[p] = "new"
    /\ LET i == loc[p].inst
           n == UlidNew(inst[i].entropy, Timestamp(loc[p].now), rnd, inc)
       IN  /\ inst' = [inst EXCEPT ![i].entropy = n.m]
           /\ IF n.err # NoErr
              THEN /\ hist' = Append(hist, Returned(p, n.id, <<>>, n.err))
                   /\ mu' = [mu EXCEPT ![i] = 0]
                   /\ pc' = [pc EXCEPT ![p] = "idle"]
                   /\ loc' = [loc EXCEPT ![p] = NoLoc]
              ELSE /\ pc' = [pc EXCEPT ![p] = "sign"]
                   /\ loc' = [loc EXCEPT ![p] =
                                [inst |-> i, metadata |-> loc[p].metadata,
                                 now |-> loc[p].now, ulidObj |-> n.id]]
                   /\ UNCHANGED <<mu, hist>>
    /\ UNCHANGED <<clock, started, ret, keybuf>>

\* the text Generate returns for an id
Generate(r, ulidObj, metadata) ==
    LET ulidStr == UlidString(ulidObj)
        metadataStr == GenerateMetadata(metadata)
        signature == generateSignature(r, ulidStr, metadataStr)
    IN  GenerateResult(ulidStr, signature, metadataStr)

\* the rest of Generate: the signature, the text, the return
GenFinish(p) ==
    /\ ret = NoRet
    /\ pc[p] = "sign"
    /\ hist' = Append(hist, Returned(p, loc[p].ulidObj,
                        Generate(inst[loc[p].inst], loc[p].ulidObj, loc[p].metadata),
                        NoErr))
    /\ pc' = [pc EXCEPT ![p] = "idle"]
    /\ loc' = [loc EXCEPT ![p] = NoLoc]
    /\ UNCHANGED <<inst, clock, started, ret, keybuf>>

\* return result, nil; the deferred r.mu.Unlock() runs
GenReturn(p) ==
    /\ GenFinish(p)
    /\ mu' = [mu EXCEPT ![loc[p].inst] = 0]

(***************************************************************************)
(* Generate in src/unnamed/part_000: the same body with no mutex.  The     *)
(* monotonic source is read and written without synchronisation, so a call *)
(* may read its state (UGenLoad) before another call's write and write its *)
(* own result after it (UGenStore).                                         *)
(***************************************************************************)
UGenCall(p, i, metadata, limit) ==
    /\ ret = NoRet
    /\ pc[p] = "idle"
    /\ inst[i] # Nil
    /\ started < limit
    /\ started' = started + 1
    /\ pc' = [pc EXCEPT ![p] = "now"]
    /\ loc' = [loc EXCEPT ![p] = [inst |-> i, metadata |-> metadata]]
    /\ UNCHANGED <<inst, mu, clock, hist, ret, keybuf>>

UGenLoad(p) ==
    /\ ret = NoRet
    /\ pc[p] = "new"
    /\ pc' = [pc EXCEPT ![p] = "store"]
    /\ loc' = [loc EXCEPT ![p] =
                 [inst |-> loc[p].inst, metadata |-> loc[p].metadata,
                  now |-> loc[p].now, m |-> inst[loc[p].inst].entropy]]
    /\ UNCHANGED <<inst, mu, clock, started, hist, ret, keybuf>>

UGenStore(p, rnd, inc) ==
    /\ ret = NoRet
    /\ pc[p] = "store"
    /\ LET i == loc[p].inst
           n == UlidNew(loc[p].m, Timestamp(loc[p].now), rnd, inc)
       IN  /\ inst' = [inst EXCEPT ![i].entropy = n.m]
           /\ IF n.err # NoErr
              THEN /\ hist' = Append(hist, Returned(p, n.id, <<>>, n.err))
                   /\ pc' = [pc EXCEPT ![p] = "idle"]
                   /\ loc' = [loc EXCEPT ![p] = NoLoc]
              ELSE /\ pc' = [pc EXCEPT ![p] = "sign"]
                   /\ loc' = [loc EXCEPT ![p] =
                                [inst |-> i, metadata |-> loc[p].metadata,
                                 now |-> loc[p].now, ulidObj |-> n.id]]
                   /\ UNCHANGED hist
    /\ UNCHANGED <<mu, clock, started, ret, keybuf>>

UGenReturn(p) ==
    /\ GenFinish(p)
    /\ UNCHANGED mu

(***************************************************************************)
(* Verify, ExtractULID and ExtractTimestamp on instance i: they take no    *)
(* lock and change nothing of the instance.                                *)
(***************************************************************************)
\* a variant of the call that resets the instance's monotonic source
VerifyCallResets(i, text) ==
    /\ ret = NoRet
    /\ inst[i] # Nil
    /\ LET v == Verify(inst[i], text)
       IN  ret' = [op |-> "Verify", inst |-> i, text |-> text,
                   result |-> v.result, err |-> v.err]
    /\ inst' = [inst EXCEPT ![i].entropy = Monotonic]
    /\ UNCHANGED <<mu, clock, pc, loc, started, hist, keybuf>>

VerifyCall(i, text) ==
    /\ ret = NoRet
    /\ inst[i] # Nil
    /\ LET v == Verify(inst[i], text)
       IN  ret' = [op |-> "Verify", inst |-> i, text |-> text,
                   result |-> v.result, err |-> v.err]
    /\ UNCHANGED <<inst, mu, clock, pc, loc, started, hist, keybuf>>

ExtractULIDCall(i, text) ==
    /\ ret = NoRet
    /\ inst[i] # Nil
    /\ LET e == ExtractULID(inst[i], text)
       IN  ret' = [op |-> "ExtractULID", inst |-> i, text |-> text,
                   result |-> e.result, err |-> e.err]
    /\ UNCHANGED <<inst, mu, clock, pc, loc, started, hist, keybuf>>

ExtractTimestampCall(i, text) ==
    /\ ret = NoRet
    /\ inst[i] # Nil
    /\ LET e == ExtractTimestamp(inst[i], text)
       IN  ret' = [op |-> "ExtractTimestamp", inst |-> i, text |-> text,
                   result |-> e.result, err |-> e.err]
    /\ UNCHANGED <<inst, mu, clock, pc, loc, started, hist, keybuf>>

(***************************************************************************)
(* Spec: concurrent Generate calls on one instance of src/rigid.go, built  *)
(* by NewRigid("k1"), with the clock advancing and every value of the      *)
(* random reader.                                                          *)
(***************************************************************************)
Init ==
    /\ InitCommon
    /\ inst = [i \in InstIds |-> IF i = 1 THEN NewRigid(Key1, <<>>).r ELSE Nil]
    /\ InitKeys

Next ==
    \/ Tick
    \/ \E p \in Procs : GenCall(p, 1, MetaNone, MaxGen)
    \/ \E p \in Procs : GenLock(p)
    \/ \E p \in Procs : GenNow(p)
    \/ \E p \in Procs : \E rnd \in RandSet : \E inc \in 1..MaxInc : GenNew(p, rnd, inc)
    \/ \E p \in Procs : GenReturn(p)

Spec == Init /\ [][Next]_vars

(***************************************************************************)
(* SpecUnlocked: the same calls on the Generate of src/unnamed/part_000.   *)
(***************************************************************************)
NextUnlocked ==
    \/ Tick
    \/ \E p \in Procs : UGenCall(p, 1, MetaNone, MaxGen)
    \/ \E p \in Procs : GenNow(p)
    \/ \E p \in Procs : UGenLoad(p)
    \/ \E p \in Procs : \E rnd \in RandSet : \E inc \in 1..MaxInc : UGenStore(p, rnd, inc)
    \/ \E p \in Procs : UGenReturn(p)

SpecUnlocked == Init /\ [][NextUnlocked]_vars

(***************************************************************************)
(* SpecApi: one caller explores the API: NewRigid with every argument for  *)
(* the first instance and with two keys and two lengths for the second,    *)
(* Generate on the first with every metadata argument, and Verify,         *)
(* ExtractULID and ExtractTimestamp on both, of the texts generated and of *)
(* fixed texts.                                                            *)
(***************************************************************************)
InitApi ==
    /\ InitCommon
    /\ inst = [i \in InstIds |-> Nil]
    /\ InitKeys

KeyArgs == {<<>>, Key1}
LenArgs == {<<>>, <<3>>, <<4>>, <<5>>, <<32>>, <<33>>, <<4, 33>>}
ApiTexts == IssuedTexts \cup Literals

NextApi ==
    \/ Forget
    \/ \E key \in KeyArgs : \E lens \in LenArgs : NewRigidCall(1, key, lens)
    \/ \E key \in {Key1, Key2} : \E lens \in {<<>>, <<4>>} : NewRigidCall(2, key, lens)
    \/ \E metadata \in MetaArgs : GenCall(1, 1, metadata, MaxApiGen)
    \/ GenLock(1)
    \/ GenNow(1)
    \/ \E inc \in 1..MaxInc : GenNew(1, RndMid, inc)
    \/ GenReturn(1)
    \/ \E i \in InstIds : \E text \in ApiTexts : VerifyCall(i, text)
    \/ \E i \in InstIds : \E text \in ApiTexts : ExtractULIDCall(i, text)
    \/ \E i \in InstIds : \E text \in ApiTexts : ExtractTimestampCall(i, text)

SpecApi == InitApi /\ [][NextApi]_vars

(***************************************************************************)
(* SpecTamper: one instance, built with the default or the smallest        *)
(* signature length; a caller generates texts and verifies every           *)
(* one-character edit of them.                                             *)
(***************************************************************************)
InitTamper ==
    /\ InitCommon
    /\ \E lens \in {<<>>, <<4>>} :
          inst = [i \in InstIds |-> IF i = 1 THEN NewRigid(Key1, lens).r ELSE Nil]
    /\ InitKeys

TamperTexts == UNION {Edits(t) : t \in IssuedTexts}

NextTamper ==
    \/ Forget
    \/ \E metadata \in {MetaNone, MetaHyphens} : GenCall(1, 1, metadata, MaxApiGen)
    \/ GenLock(1)
    \/ GenNow(1)
    \/ \E inc \in 1..MaxInc : GenNew(1, RndMid, inc)
    \/ GenReturn(1)
    \/ \E text \in IssuedTexts \cup TamperTexts : VerifyCall(1, text)

SpecTamper == InitTamper /\ [][NextTamper]_vars

(***************************************************************************)
(* SpecRepeat: two instances built from the key "k1" with the default      *)
(* length.  A caller generates on the first, with the metadata "-a--b-",   *)
(* while the clock advances and the random reader returns a middle or the  *)
(* largest value, so that the monotonic source can overflow; the caller    *)
(* clears the key buffer of the first instance; and Verify, ExtractULID    *)
(* and ExtractTimestamp run on both instances.                             *)
(***************************************************************************)
InitRepeat ==
    /\ InitCommon
    /\ inst = [i \in InstIds |-> NewRigid(Key1, <<>>).r]
    /\ InitKeys

RepeatTexts == IssuedTexts \cup {TextEmpty, Text12345, TextBadChar}

NextRepeat ==
    \/ Forget
    \/ Tick
    \/ GenCall(1, 1, MetaHyphens, MaxRepeatGen)
    \/ GenLock(1)
    \/ GenNow(1)
    \/ \E rnd \in {RndMid, RndMax} : \E inc \in 1..MaxInc : GenNew(1, rnd, inc)
    \/ GenReturn(1)
    \/ OverwriteKey(1, 0)
    \/ \E i \in InstIds : \E text \in RepeatTexts : VerifyCall(i, text)
    \/ \E i \in InstIds : \E text \in RepeatTexts : ExtractULIDCall(i, text)
    \/ \E i \in InstIds : \E text \in RepeatTexts : ExtractTimestampCall(i, text)

SpecRepeat == InitRepeat /\ [][NextRepeat]_vars

(***************************************************************************)
(* SpecLive: concurrent Generate calls on one instance of src/rigid.go     *)
(* under the Go scheduler: a goroutine that can take a step of its call,   *)
(* and stays able to, takes it.  A goroutine waiting in r.mu.Lock() can    *)
(* step only while the mutex is free.  The random reader returns a middle  *)
(* or the largest value, so that calls fail with the overflow error.       *)
(***************************************************************************)
NextLive ==
    \/ Tick
    \/ \E p \in Procs : GenCall(p, 1, MetaNone, MaxGen)
    \/ \E p \in Procs : GenLock(p)
    \/ \E p \in Procs : GenNow(p)
    \/ \E p \in Procs : \E rnd \in {RndMid, RndMax} : \E inc \in 1..MaxInc : GenNew(p, rnd, inc)
    \/ \E p \in Procs : GenReturn(p)

\* the steps of the Generate call of goroutine p, once it is made, as the
\* position of p shows them: a step of NextLive that moves p from "lock" is
\* GenLock(p), from "now" GenNow(p), from "new" a GenNew(p, rnd, inc), from
\* "sign" GenReturn(p), and each of these is enabled exactly when the move is
GenStep(p) ==
    /\ ret = NoRet
    /\ \/ /\ pc[p] = "lock"
          /\ mu[loc[p].inst] = 0
          /\ pc' = [pc EXCEPT ![p] = "now"]
       \/ /\ pc[p] = "now"
          /\ pc' = [pc EXCEPT ![p] = "new"]
       \/ /\ pc[p] = "new"
          /\ \E s \in {"sign", "idle"} : pc' = [pc EXCEPT ![p] = s]
       \/ /\ pc[p] = "sign"
          /\ pc' = [pc EXCEPT ![p] = "idle"]

\* a goroutine that can run is eventually scheduled: a call that can take its
\* next step, and stays able to, takes it
SpecLive == Init /\ [][NextLive]_vars /\ \A p \in Procs : WF_pc(GenStep(p))

(***************************************************************************)
(* The claims.                                                             *)
(***************************************************************************)
\* the returned Generate calls whose text is t, made on instance i
IssuedAs(i, t) == {k \in Issued : hist[k].inst = i /\ hist[k].text = t}

\* the metadata string a Generate call was given: its first argument, or ""
BoundMetadata(args) == IF args = <<>> THEN <<>> ELSE args[1]

\* the position of the first hyphen of a text that has one
FirstHyphen(t) == CHOOSE i \in 1..Len(t) : t[i] = 45 /\ \A j \in 1..(i - 1) : t[j] # 45

\* the text before the first hyphen
FirstSegment(t) == SubSeq(t, 1, FirstHyphen(t) - 1)

HasHyphen(t) == \E i \in 1..Len(t) : t[i] = 45

\* C1: a text Generate(m) returned verifies on the same instance: no error,
\* Valid, Metadata equal to m and ULID equal to the text's first segment.
C1_RoundTrip ==
    ret.op = "Verify" =>
        \A k \in IssuedAs(ret.inst, ret.text) :
            /\ ret.err = NoErr
            /\ ret.result.Valid
            /\ ret.result.Metadata = BoundMetadata(hist[k].metadata)
            /\ ret.result.ULID = FirstSegment(ret.text)

\* a text generated with the metadata "-a--b-" by an instance with 32-byte
\* signatures was verified and came back with that metadata
C1_Witness ==
    /\ ret.op = "Verify"
    /\ inst[ret.inst].signatureLength = 32
    /\ \E k \in IssuedAs(ret.inst, ret.text) : hist[k].metadata = MetaHyphens
    /\ ret.result.Valid
    /\ ret.result.Metadata = <<45, 97, 45, 45, 98, 45>>

\* the goroutines that have read the clock for a Generate call on instance i
\* and have not yet advanced its monotonic counter
BetweenClockAndCounter(i) == {p \in Procs : pc[p] \in {"new", "store"} /\ loc[p].inst = i}

\* the returned calls of hist, in the order ord, are what the monotonic
\* source gives when the calls run one after the other from state m
RECURSIVE SequentialFrom(_, _, _)
SequentialFrom(m, ord, n) ==
    IF n > Len(ord) THEN TRUE
    ELSE LET h == hist[ord[n]]
         IN  \E rnd \in RandSet : \E inc \in 1..MaxInc :
                LET u == UlidNew(m, Timestamp(h.now), rnd, inc)
                IN  /\ u.err = h.err
                    /\ u.id = h.id
                    /\ SequentialFrom(u.m, ord, n + 1)

Orders == {ord \in [1..Len(hist) -> 1..Len(hist)] : \A a, b \in 1..Len(hist) : ord[a] = ord[b] => a = b}

\* C2: concurrent Generate calls on one instance never interleave their
\* clock read and counter advance, their results are those of the calls in
\* some sequential order, and no two successful calls return the same id.
C2_ConcurrentGenerateSafe ==
    /\ \A i \in InstIds : Cardinality(BetweenClockAndCounter(i)) <= 1
    /\ \E ord \in Orders : SequentialFrom(Monotonic, ord, 1)
    /\ \A j, k \in Issued : (j # k /\ hist[j].inst = hist[k].inst) => hist[j].id # hist[k].id

\* C3: a text that verifies as Valid on an instance is one that Generate
\* returned on it: no edited text verifies.
C3_TamperDetected ==
    (ret.op = "Verify" /\ ret.result.Valid) => IssuedAs(ret.inst, ret.text) # {}

\* the end of the signature segment of a generated text: the position before
\* its second hyphen, or its last position
SignatureEnd(t) ==
    LET after == {i \in (FirstHyphen(t) + 1)..Len(t) : t[i] = 45}
    IN  IF after = {} THEN Len(t)
        ELSE (CHOOSE i \in after : \A j \in after : i <= j) - 1

\* u is t with the character at one position of its signature segment
\* replaced by another
SignatureEdited(t, u) ==
    /\ Len(u) = Len(t)
    /\ \E i \in (FirstHyphen(t) + 1)..SignatureEnd(t) :
          /\ u[i] # t[i]
          /\ \A j \in 1..Len(t) : j # i => u[j] = t[j]

\* C4: a generated text with one character of its signature segment replaced
\* fails verification with ErrIntegrityFailure.
C4_SignatureTamper ==
    ret.op = "Verify" =>
        \A k \in Issued :
            (hist[k].inst = ret.inst /\ SignatureEdited(hist[k].text, ret.text)) =>
                /\ ret.err = ErrIntegrityFailure
                /\ ~ret.result.Valid

\* a signature character was replaced by its lower-case form and the text
\* failed with ErrIntegrityFailure
C4_Witness ==
    /\ ret.op = "Verify"
    /\ ret.err = ErrIntegrityFailure
    /\ \E k \in Issued :
          /\ SignatureEdited(hist[k].text, ret.text)
          /\ ToUpper(ret.text) = hist[k].text

\* C5: a text generated by an instance verifies on an instance with another
\* secret key and the same signature length as ErrIntegrityFailure.
C5_WrongKey ==
    (ret.op = "Verify" /\ ret.inst = 2 /\ inst[1] # Nil) =>
        ((/\ IssuedAs(1, ret.text) # {}
          /\ inst[1].secretKey # inst[2].secretKey
          /\ inst[1].signatureLength = inst[2].signatureLength) =>
            /\ ret.err = ErrIntegrityFailure
            /\ ~ret.result.Valid)

\* the second instance, with another key and the same length, verified a
\* text of the first
C5_Witness ==
    /\ ret.op = "Verify"
    /\ ret.inst = 2
    /\ inst[1] # Nil
    /\ IssuedAs(1, ret.text) # {}
    /\ inst[1].secretKey # inst[2].secretKey
    /\ inst[1].signatureLength = inst[2].signatureLength
    /\ ret.err = ErrIntegrityFailure

\* C6, as stated: Verify("") and Verify("no-hyphens-here") yield
\* ErrInvalidFormat.
C6_Original ==
    (ret.op = "Verify" /\ ret.text \in {TextEmpty, TextNoHyphensHere}) =>
        ret.err = ErrInvalidFormat

\* C6, amended: Verify returns ErrInvalidFormat exactly for the texts with no
\* hyphen, so for ""; "no-hyphens-here" has three segments and yields
\* ErrInvalidULID.
C6_FormatError ==
    ret.op = "Verify" =>
        /\ (ret.err = ErrInvalidFormat) <=> ~HasHyphen(ret.text)
        /\ ret.text = TextEmpty => ret.err = ErrInvalidFormat
        /\ ret.text = TextNoHyphensHere => ret.err = ErrInvalidULID

\* "no-hyphens-here" was verified and yielded ErrInvalidULID
C6_Witness ==
    /\ ret.op = "Verify"
    /\ ret.text = TextNoHyphensHere
    /\ ret.err = ErrInvalidULID

\* a first segment that is no valid encoding: not 26 characters, or a
\* character (of either case) outside the encoding's alphabet, or a first
\* character above '7', whose value does not fit 128 bits
MalformedId(seg) ==
    \/ Len(seg) # 26
    \/ \E i \in 1..Len(seg) : ToUpper(<<seg[i]>>)[1] \notin {UlidEncoding[k] : k \in 1..32}
    \/ seg[1] > 55

\* C7: Verify and ExtractULID return ErrInvalidULID for every text of at
\* least 2 segments whose first segment is no valid encoding.
C7_MalformedIdRejected ==
    (ret.op \in {"Verify", "ExtractULID"} /\ HasHyphen(ret.text)
        /\ MalformedId(FirstSegment(ret.text))) =>
            ret.err = ErrInvalidULID

\* C8: NewRigid fails, with ErrEmptySecretKey or ErrInvalidSigLength and no
\* instance, exactly when the key is empty or a length outside 4..32 is
\* given; 3 and 33 fail, 4 and 32 succeed, no length gives length 8.
C8_NewRigid ==
    ret.op = "NewRigid" =>
        LET bad == ret.key = <<>> \/ (ret.lens # <<>> /\ ret.lens[1] \notin 4..32)
        IN  /\ (ret.err # NoErr) <=> bad
            /\ bad => /\ ret.err \in {ErrEmptySecretKey, ErrInvalidSigLength}
                      /\ ret.r = Nil
                      /\ inst[ret.inst] = Nil
            /\ ~bad => /\ inst[ret.inst] = ret.r
                       /\ ret.r.signatureLength = (IF ret.lens = <<>> THEN 8 ELSE ret.lens[1])
            /\ (ret.key # <<>> /\ ret.lens \in {<<3>>, <<33>>}) => ret.err = ErrInvalidSigLength
            /\ (ret.key # <<>> /\ ret.lens \in {<<4>>, <<32>>}) => ret.err = NoErr

\* NewRigid was called with a key and length 33 and failed; nothing was built
C8_Witness ==
    /\ ret.op = "NewRigid"
    /\ ret.key = Key1
    /\ ret.lens = <<33>>
    /\ ret.err = ErrInvalidSigLength
    /\ inst[ret.inst] = Nil

\* a < b for byte sequences of one length (the order of the ids' texts)
BytesLess(a, b) ==
    \E i \in 1..Len(a) : a[i] < b[i] /\ \A j \in 1..(i - 1) : a[j] = b[j]

\* C9: the ids of the successful Generate calls of one instance within one
\* millisecond strictly increase in call order, and the texts of any run of
\* calls are pairwise distinct.
C9_Monotonic ==
    \A j, k \in Issued :
        (j < k /\ hist[j].inst = hist[k].inst) =>
            /\ Timestamp(hist[j].now) = Timestamp(hist[k].now) => BytesLess(hist[j].id, hist[k].id)
            /\ hist[j].text # hist[k].text

\* the value of a byte sequence, big-endian
RECURSIVE BytesValue(_, _)
BytesValue(bytes, n) == IF n = 0 THEN 0 ELSE 256 * BytesValue(bytes, n - 1) + bytes[n]

\* C10: ExtractULID of a generated text returns the id Generate created,
\* whose text is the first segment, and ExtractTimestamp returns the clock
\* reading of Generate cut to the millisecond.
C10_Extract ==
    \A k \in Issued :
        (ret.op \in {"ExtractULID", "ExtractTimestamp"} /\ hist[k].text = ret.text) =>
            /\ ret.op = "ExtractULID" =>
                  /\ ret.err = NoErr
                  /\ ret.result = hist[k].id
                  /\ UlidString(ret.result) = FirstSegment(ret.text)
            /\ ret.op = "ExtractTimestamp" =>
                  /\ ret.err = NoErr
                  /\ BytesValue(ret.result.sec, Len(ret.result.sec)) = hist[k].now.sec
                  /\ ret.result.nsec = (hist[k].now.nsec \div 1000000) * 1000000

\* ExtractTimestamp of a generated text returned the reading without its
\* 999999 ns below the millisecond
C10_Witness ==
    /\ ret.op = "ExtractTimestamp"
    /\ ret.err = NoErr
    /\ \E k \in Issued : hist[k].text = ret.text /\ hist[k].now.nsec = 999999999
    /\ ret.result.nsec = 999000000

\* C11: ExtractULID and ExtractTimestamp return ErrInvalidFormat exactly when
\* Verify does, ErrInvalidULID exactly when Verify does, succeed on every
\* other text, and never return ErrIntegrityFailure.
C11_ExtractParsesAsVerify ==
    ret.op \in {"ExtractULID", "ExtractTimestamp"} =>
        \A i \in InstIds :
            inst[i] # Nil =>
                LET v == Verify(inst[i], ret.text).err
                IN  /\ (ret.err = ErrInvalidFormat) <=> (v = ErrInvalidFormat)
                    /\ (ret.err = ErrInvalidULID) <=> (v = ErrInvalidULID)
                    /\ v \notin {ErrInvalidFormat, ErrInvalidULID} => ret.err = NoErr
                    /\ ret.err # ErrIntegrityFailure

\* ExtractTimestamp succeeded on a text that Verify rejects with
\* ErrIntegrityFailure
C11_Witness ==
    /\ ret.op = "ExtractTimestamp"
    /\ ret.err = NoErr
    /\ Verify(inst[ret.inst], ret.text).err = ErrIntegrityFailure

\* C12: a Generate call with several metadata arguments returns the text a
\* call with the first argument alone returns for that id, nothing of the
\* other arguments is in it, and Verify of it returns the first argument.
C12_FirstMetadataOnly ==
    \A k \in Issued :
        Len(hist[k].metadata) > 1 =>
            /\ hist[k].text = Generate(inst[hist[k].inst], hist[k].id, <<hist[k].metadata[1]>>)
            /\ \A a \in 2..Len(hist[k].metadata) :
                  \A c \in 1..Len(hist[k].metadata[a]) :
                      \A j \in 1..Len(hist[k].text) : hist[k].text[j] # hist[k].metadata[a][c]
            /\ (ret.op = "Verify" /\ ret.inst = hist[k].inst /\ ret.text = hist[k].text) =>
                  /\ ret.err = NoErr
                  /\ ret.result.Valid
                  /\ ret.result.Metadata = hist[k].metadata[1]

\* a text generated with the arguments ("m", "x") was verified and came back
\* with the metadata "m"
C12_Witness ==
    /\ ret.op = "Verify"
    /\ \E k \in IssuedAs(ret.inst, ret.text) : hist[k].metadata = MetaTwo
    /\ ret.result.Valid
    /\ ret.result.Metadata = <<109>>

\* the number of base32 characters of an n-byte signature: ceil(8n/5)
SignatureChars(n) == (8 * n + 4) \div 5

\* C13: a text generated by the first instance verifies on a second instance
\* with the same secret key as Valid with the same metadata when the
\* signature lengths are equal, and as ErrIntegrityFailure, the signature
\* segment having another length than the expected one, when they differ.
C13_MultiInstance ==
    (ret.op = "Verify" /\ ret.inst = 2 /\ inst[1] # Nil
        /\ inst[1].secretKey = inst[2].secretKey) =>
        \A k \in IssuedAs(1, ret.text) :
            IF inst[1].signatureLength = inst[2].signatureLength
            THEN /\ ret.err = NoErr
                 /\ ret.result.Valid
                 /\ ret.result.Metadata = BoundMetadata(hist[k].metadata)
            ELSE /\ ret.err = ErrIntegrityFailure
                 /\ ~ret.result.Valid
                 /\ SignatureEnd(ret.text) - FirstHyphen(ret.text)
                        # SignatureChars(inst[2].signatureLength)

\* the second instance, with the same key and length as the first, verified
\* a text of the first with the metadata "-a--b-" as Valid
C13_Witness ==
    /\ ret.op = "Verify"
    /\ ret.inst = 2
    /\ inst[1] # Nil
    /\ inst[1].secretKey = inst[2].secretKey
    /\ inst[1].signatureLength = inst[2].signatureLength
    /\ \E k \in IssuedAs(1, ret.text) : hist[k].metadata = MetaHyphens
    /\ ret.result.Valid
    /\ ret.result.Metadata = <<45, 97, 45, 45, 98, 45>>

\* what the operation op returns on the instance r for a text
Outcome(op, r, text) ==
    CASE op = "Verify" -> Verify(r, text)
      [] op = "ExtractULID" -> ExtractULID(r, text)
      [] op = "ExtractTimestamp" -> ExtractTimestamp(r, text)

\* the outcome of the last Verify, ExtractULID or ExtractTimestamp is the
\* outcome of the same call on every instance of the same key and signature
\* length, whatever its counter holds, and on a newly built one
ReadsRepeat ==
    ret.op \in {"Verify", "ExtractULID", "ExtractTimestamp"} =>
        LET r == inst[ret.inst]
            same == {inst[j] : j \in {i \in InstIds : inst[i] # Nil}}
                        \cup {NewRigid(r.secretKey, <<r.signatureLength>>).r}
        IN  \A q \in same :
                (q.secretKey = r.secretKey /\ q.signatureLength = r.signatureLength) =>
                    Outcome(ret.op, q, ret.text) = [result |-> ret.result, err |-> ret.err]

\* C14, as stated: for Generate too, the calls with one input on one
\* instance all succeed or all fail with the same error.
C14_Original ==
    /\ ReadsRepeat
    /\ \A j, k \in 1..Len(hist) :
          (hist[j].inst = hist[k].inst /\ hist[j].metadata = hist[k].metadata) =>
              hist[j].err = hist[k].err

\* C14, amended: the outcome of Verify, ExtractULID and ExtractTimestamp is
\* a function of the text, the key and the signature length only; Generate
\* fails exactly when its monotonic source overflows, which depends on the
\* counter, the clock and the random reader and not on its input.
C14_Deterministic ==
    /\ ReadsRepeat
    /\ \A k \in 1..Len(hist) : hist[k].err \in {NoErr, ErrMonotonicOverflow}

\* Verify ran on the second instance, whose counter was never used, after
\* the first instance's counter overflowed on an input it had accepted
C14_Witness ==
    /\ ret.op = "Verify"
    /\ ret.inst = 2
    /\ ret.result.Valid
    /\ inst[1].entropy # inst[2].entropy
    /\ \E j, k \in 1..Len(hist) :
          /\ hist[j].metadata = hist[k].metadata
          /\ hist[j].err = NoErr
          /\ hist[k].err = ErrMonotonicOverflow

\* C15: after the caller has overwritten the buffer it gave NewRigid, the
\* instance still holds the key it was built from, every text Generate
\* returned is signed with that key, and Verify accepts the texts of the
\* instance as before.
C15_KeyCopied ==
    /\ \A i \in InstIds : inst[i].secretKey = Key1
    /\ \A k \in Issued :
          hist[k].text = Generate(NewRigid(Key1, <<>>).r, hist[k].id, hist[k].metadata)
    /\ \A i \in InstIds :
          (ret.op = "Verify" /\ ret.inst = i /\ keybuf[i] # Key1 /\ ret.text \in IssuedTexts) =>
              /\ ret.err = NoErr
              /\ ret.result.Valid

\* the caller of the first instance has cleared its buffer, and the
\* instance then verified one of its texts
C15_Witness ==
    /\ keybuf[1] = <<0, 0>>
    /\ ret.op = "Verify"
    /\ ret.inst = 1
    /\ IssuedAs(1, ret.text) # {}
    /\ ret.result.Valid

\* goroutine p leaves the ulid.New step of its Generate call, and the
\* monotonic source of its instance is left as by a call that overflowed
NewOverflowed(p) ==
    /\ pc[p] = "new"
    /\ pc'[p] # "new"
    /\ \E rnd \in RandSet : \E inc \in 1..MaxInc :
          LET n == UlidNew(inst[loc[p].inst].entropy, Timestamp(loc[p].now), rnd, inc)
          IN  n.err = ErrMonotonicOverflow /\ n.m = inst'[loc[p].inst].entropy

\* C16: when ulid.New fails with the overflow of the monotonic source, the
\* Generate call returns in that step, with that error and the empty text,
\* without signing, without reading the clock or the source again, and with
\* the mutex released.
C16_OverflowReturned ==
    [][\A p \in Procs :
            NewOverflowed(p) =>
                /\ pc'[p] = "idle"
                /\ hist' = Append(hist, Returned(p, hist'[Len(hist')].id, <<>>, ErrMonotonicOverflow))
                /\ mu'[loc[p].inst] = 0
                /\ clock' = clock
                /\ loc'[p] = NoLoc]_vars

\* a Generate call has returned the overflow error and the empty text
C16_Witness ==
    \E k \in 1..Len(hist) : hist[k].err = ErrMonotonicOverflow /\ hist[k].text = <<>>

\* the checks of Verify a text fails: no hyphen; a first segment that
\* ulid.Parse refuses; a signature segment of another length than the
\* n-byte signature expected
FailsFormat(t) == ~HasHyphen(t)
FailsId(t) == HasHyphen(t) /\ UlidParse(FirstSegment(t)).err # NoErr
FailsLength(t, n) == HasHyphen(t) /\ SignatureEnd(t) - FirstHyphen(t) # SignatureChars(n)

\* C17: Verify reports the earliest failed check: the segment count, then
\* the id, then the signature's length, then its bytes; ErrIntegrityFailure
\* comes only for texts that pass the first two, and a signature of another
\* length than expected gets it.
C17_CheckOrder ==
    ret.op = "Verify" =>
        LET t == ret.text
            n == inst[ret.inst].signatureLength
        IN  /\ FailsFormat(t) => ret.err = ErrInvalidFormat
            /\ (~FailsFormat(t) /\ FailsId(t)) => ret.err = ErrInvalidULID
            /\ (~FailsFormat(t) /\ ~FailsId(t) /\ FailsLength(t, n)) =>
                  ret.err = ErrIntegrityFailure
            /\ ret.err = ErrIntegrityFailure => (~FailsFormat(t) /\ ~FailsId(t))
            /\ ret.err = NoErr => (~FailsFormat(t) /\ ~FailsId(t) /\ ~FailsLength(t, n))

\* "12345-SIGNATURE", whose id and whose signature length are both wrong,
\* was verified and got the error of the id
C17_Witness ==
    /\ ret.op = "Verify"
    /\ ret.text = Text12345
    /\ FailsId(ret.text)
    /\ FailsLength(ret.text, inst[ret.inst].signatureLength)
    /\ ret.err = ErrInvalidULID

\* the upper-case letters and the digits 2 to 7
IsBase32Char(c) == (c >= 65 /\ c <= 90) \/ (c >= 50 /\ c <= 55)

\* C18: a generated text is the 26 characters of the id, a hyphen and
\* ceil(8N/5) upper-case base32 characters, and nothing more when the bound
\* metadata is empty (no argument, or ""), so that it has one hyphen; and
\* otherwise a second hyphen and the metadata.
C18_TextFormat ==
    \A k \in Issued :
        LET t == hist[k].text
            n == SignatureChars(inst[hist[k].inst].signatureLength)
            m == BoundMetadata(hist[k].metadata)
        IN  /\ Len(t) >= 27 + n
            /\ SubSeq(t, 1, 26) = UlidString(hist[k].id)
            /\ t[27] = 45
            /\ \A j \in 28..(27 + n) : IsBase32Char(t[j])
            /\ IF m = <<>>
               THEN /\ Len(t) = 27 + n
                    /\ Cardinality({j \in 1..Len(t) : t[j] = 45}) = 1
               ELSE t = SubSeq(t, 1, 27 + n) \o <<45>> \o m

\* Generate("") on an instance with 5-byte signatures returned a text of 26,
\* a hyphen and 8 characters
C18_Witness ==
    \E k \in Issued :
        /\ hist[k].metadata = MetaEmpty
        /\ inst[hist[k].inst].signatureLength = 5
        /\ Len(hist[k].text) = 35

\* the metadata of a text with a hyphen: what follows its second hyphen
MetadataOf(t) == SubSeq(t, SignatureEnd(t) + 2, Len(t))

\* C19: the id text that is signed has 26 characters, in Generate and in
\* Verify, and a text whose signature Verify computes has the signed message
\* of a generated text only if it has its id and its metadata.
C19_SignedMessageUnambiguous ==
    /\ \A k \in Issued : Len(UlidString(hist[k].id)) = 26
    /\ \A j, k \in Issued :
          UlidString(hist[j].id) \o BoundMetadata(hist[j].metadata)
                = UlidString(hist[k].id) \o BoundMetadata(hist[k].metadata)
            => (hist[j].id = hist[k].id
                /\ BoundMetadata(hist[j].metadata) = BoundMetadata(hist[k].metadata))
    /\ (ret.op = "Verify" /\ ret.err \in {NoErr, ErrIntegrityFailure}) =>
          /\ Len(FirstSegment(ret.text)) = 26
          /\ \A k \in Issued :
                FirstSegment(ret.text) \o MetadataOf(ret.text)
                      = UlidString(hist[k].id) \o BoundMetadata(hist[k].metadata)
                  => (FirstSegment(ret.text) = UlidString(hist[k].id)
                      /\ MetadataOf(ret.text) = BoundMetadata(hist[k].metadata))

\* Verify computed the signature of a text with the metadata of a generated
\* text and another id of 26 characters
C19_Witness ==
    /\ ret.op = "Verify"
    /\ ret.err = ErrIntegrityFailure
    /\ Len(FirstSegment(ret.text)) = 26
    /\ \E k \in Issued :
          /\ hist[k].metadata = MetaHyphens
          /\ MetadataOf(ret.text) = BoundMetadata(hist[k].metadata)
          /\ FirstSegment(ret.text) # UlidString(hist[k].id)

\* C20: in every step, an instance that is built keeps its secret key and
\* its signature length; a step that is a Verify, ExtractULID or
\* ExtractTimestamp call changes no instance and no mutex; and the monotonic
\* source of an instance changes only in the ulid.New step of a Generate
\* call whose goroutine holds the instance's mutex.
C20_Frame ==
    [][/\ \A i \in InstIds :
              inst[i] # Nil =>
                  /\ inst'[i] # Nil
                  /\ inst'[i].secretKey = inst[i].secretKey
                  /\ inst'[i].signatureLength = inst[i].signatureLength
       /\ (ret = NoRet /\ ret'.op \in {"Verify", "ExtractULID", "ExtractTimestamp"}) =>
              (inst' = inst /\ mu' = mu)
       /\ \A i \in InstIds :
              (inst[i] # Nil /\ inst'[i].entropy # inst[i].entropy) =>
                  \E p \in Procs : pc[p] = "new" /\ loc[p].inst = i /\ mu[i] = p]_vars

\* Verify returned on an instance while a Generate call that had advanced
\* its counter was holding its mutex
C20_Witness ==
    /\ ret.op = "Verify"
    /\ mu[ret.inst] # 0
    /\ inst[ret.inst].entropy # Monotonic

\* C21: Verify returns Valid exactly with a nil error, and with each of its
\* errors the zero result: not Valid, the empty ULID, the empty Metadata.
C21_ValidIffNoError ==
    ret.op = "Verify" =>
        /\ ret.result.Valid <=> (ret.err = NoErr)
        /\ ret.err \in {NoErr, ErrInvalidFormat, ErrInvalidULID, ErrIntegrityFailure}
        /\ ret.err # NoErr =>
              /\ ~ret.result.Valid
              /\ ret.result.ULID = <<>>
              /\ ret.result.Metadata = <<>>

\* the second instance, with another key, rejected a text of the first that
\* carries the metadata "-a--b-", and returned nothing of it
C21_Witness ==
    /\ ret.op = "Verify"
    /\ ret.inst = 2
    /\ ret.err = ErrIntegrityFailure
    /\ \E k \in IssuedAs(1, ret.text) : hist[k].metadata = MetaHyphens
    /\ ret.result = [Valid |-> FALSE, ULID |-> <<>>, Metadata |-> <<>>]

\* C22: the mutex of an instance is held only by a goroutine inside its
\* Generate call, so every call, the failed one too, has released it when it
\* returns; and every Generate call that is made returns.
C22_GenerateReturns ==
    /\ [](\A p \in Procs : \A i \in InstIds : mu[i] = p => pc[p] \in {"now", "new", "sign"})
    /\ \A p \in Procs : (pc[p] # "idle") ~> (pc[p] = "idle")

\* a Generate call failed with the overflow error, a call of the other
\* goroutine made after it succeeded, and the mutex is free
C22_Witness ==
    /\ mu[1] = 0
    /\ \E j, k \in 1..Len(hist) :
          /\ j < k
          /\ hist[j].err = ErrMonotonicOverflow
          /\ hist[k].err = NoErr
          /\ hist[j].proc # hist[k].proc
=============================================================================
